---- MODULE Spec2Model ----
(***************************************************************************)
(* A model of plots.py: the PlotID/YYYYMMDD directory scan, the date      *)
(* filter, the single-file and multi-band metadata extraction around the  *)
(* external exiftool process, and the band-assignment summaries.          *)
(*                                                                         *)
(* Each component has its own specification (SpecScan, SpecOne, ...): its  *)
(* Init draws the inputs (a directory tree, a table, the outcomes of the   *)
(* external process) from bounded sets and its actions are the steps of    *)
(* the function as the source executes them.                               *)
(***************************************************************************)
EXTENDS Integers, Sequences, FiniteSets, TLC

\* Python's None / pandas' NaN: the absent value.
None == "None"

(***************************************************************************)
(* Bounds of the model.                                                    *)
(***************************************************************************)
\* The most directory entries below the plot directories of a scanned tree.
MaxEntries == 3
\* The most files below a visit directory handed to extract_tif_metadata.
MaxFiles == 4
\* The most rows of a table of visits.
MaxRows == 3
\* The most files the band search hands to exiftool.
MaxBandFiles == 3
\* The most visits of a table handed to extract_multispec_analysis.
MaxVisits == 2
\* The most rows of a table handed to compare_band_assignments.
MaxTableRows == 3

(***************************************************************************)
(* The state: the inputs, the locals and the results of each function.     *)
(***************************************************************************)
VARIABLES
    plotKind,     \* scan: plot id -> "dir" | "file" | "none", the entries of root
    tree,         \* scan: the entries of the plot directories
    scanPc,       \* scan: "idle" | "plots" | "dates" | "done"
    plotsLeft,    \* scan: the entries base_path.iterdir() has still to yield
    plot_dir,     \* scan: the plot directory being iterated
    datesLeft,    \* scan: the entries plot_dir.iterdir() has still to yield
    data,         \* scan: the list of visit records built so far
    scanWarnings  \* scan: the "Could not parse date" warnings printed

scanVars == <<plotKind, tree, scanPc, plotsLeft, plot_dir, datesLeft, data, scanWarnings>>

VARIABLES
    listing,      \* extractOne: the files below directory_path
    oneFields,    \* extractOne: the requested fields
    onePc,        \* extractOne: "idle" | "stage1" | "stage2" | "stage3" | "found" | "done"
    tif_files,    \* extractOne: the list of located files
    stagesRun,    \* extractOne: the searches made, in order
    toolCalls,    \* extractOne: the files exiftool was started on, in order
    toolOutcome,  \* extractOne: what the last exiftool process did
    oneResult     \* extractOne: how the call ended: a returned mapping or an exception

oneVars == <<listing, oneFields, onePc, tif_files, stagesRun, toolCalls, toolOutcome, oneResult>>

VARIABLES
    fDf,          \* filter_date: the table passed as df
    fDf0,         \* filter_date: the table as it was when the call was made
    fStart,       \* filter_date: start, a date text, or Omitted
    fEnd,         \* filter_date: end, a date text, or Omitted
    fPc,          \* filter_date: "idle" | "call" | "done" | "raised"
    fResult,      \* filter_date: the table returned
    fSameObject   \* filter_date: the table returned is df itself

filterVars == <<fDf, fDf0, fStart, fEnd, fPc, fResult, fSameObject>>

VARIABLES
    bFields,      \* extractBands: the requested fields
    band_files,   \* extractBands: the files found by the search of lines 362-410
    bPc,          \* extractBands: "idle" | "found" | "version" | "batch" | "done"
    bCalls,       \* extractBands: the exiftool processes started, in order
    bResult       \* extractBands: the mapping returned

bandsVars == <<bFields, band_files, bPc, bCalls, bResult>>

VARIABLES
    eFn,            \* enrich: "parse_plots" | "extract_metadata", the function running
    include_metadata, \* enrich: the flag of parse_plots
    eFields,        \* enrich: the requested fields
    eDf,            \* enrich: the table whose rows are visited
    ePc,            \* enrich: "idle" | "start" | "loop" | "concat" | "sort" | "done" | "raised"
    metadata_list,  \* enrich: the mappings extracted so far, one for each row visited
    eExc,           \* enrich: the exception that left the function, and where
    eResult         \* enrich: the table returned

enrichVars == <<eFn, include_metadata, eFields, eDf, ePc, metadata_list, eExc, eResult>>

VARIABLES
    aDf,          \* analysis: plot_df, the table of visits
    aFields,      \* analysis: the requested fields
    aPc,          \* analysis: "idle" | "loop" | "done"
    aBands,       \* analysis: what extract_multispec_bands returned, visit by visit
    aData,        \* analysis: data, the records built so far
    total_processed, \* analysis: the visits that had bands
    aResult,      \* analysis: the table returned
    aReported     \* analysis: the Software tag exiftool printed, visit by visit

analysisVars == <<aDf, aFields, aPc, aBands, aData, total_processed, aResult, aReported>>

VARIABLES
    cDf,          \* compare: df, the table handed in
    cPc,          \* compare: "idle" | "start" | "summary" | "table" | "raised"
    cExc,         \* compare: the exception that left the function, or None
    summary_df,   \* compare: what compare_band_assignments returned
    pivot_df      \* compare: what create_band_table returned

compareVars == <<cDf, cPc, cExc, summary_df, pivot_df>>

VARIABLES
    mPc,          \* main: "idle" | "scan" | "preview" | "sorted" | "exit" | "raised"
    mOut,         \* main: what was printed, block by block
    df_sorted,    \* main: df_sorted
    mExc          \* main: the exception that ended the program, or None

mainVars == <<mPc, mOut, df_sorted, mExc>>

VARIABLES
    kPc,          \* chain: "idle" | "analysis" | "compared"
    kCompared     \* chain: what compare_band_assignments did with the analysis

chainVars == <<kPc, kCompared>>

vars == <<scanVars, oneVars, filterVars, bandsVars, enrichVars, analysisVars, compareVars, mainVars, chainVars>>

\* What each function leaves alone: the state of the others.
scanOthers == <<oneVars, filterVars, bandsVars, enrichVars, analysisVars, compareVars, mainVars, chainVars>>
oneOthers == <<scanVars, filterVars, bandsVars, enrichVars, analysisVars, compareVars, mainVars, chainVars>>
filterOthers == <<scanVars, oneVars, bandsVars, enrichVars, analysisVars, compareVars, mainVars, chainVars>>
bandsOthers == <<scanVars, oneVars, filterVars, enrichVars, analysisVars, compareVars, mainVars, chainVars>>
enrichOthers == <<scanVars, oneVars, filterVars, bandsVars, analysisVars, compareVars, mainVars, chainVars>>
analysisOthers == <<scanVars, oneVars, filterVars, bandsVars, enrichVars, compareVars, mainVars, chainVars>>
compareOthers == <<scanVars, oneVars, filterVars, bandsVars, enrichVars, analysisVars, mainVars, chainVars>>
mainOthers == <<scanVars, oneVars, filterVars, bandsVars, enrichVars, analysisVars, compareVars, chainVars>>
chainOthers == <<scanVars, oneVars, filterVars, bandsVars, enrichVars, analysisVars, compareVars, mainVars>>

(***************************************************************************)
(* Generic helpers.                                                        *)
(***************************************************************************)
Range(s) == {s[i] : i \in 1..Len(s)}

\* Python's  s[:n]
Take(s, n) == SubSeq(s, 1, IF Len(s) < n THEN Len(s) ELSE n)

(***************************************************************************)
(* PathScanner: parse_directory_structure.                                 *)
(*                                                                         *)
(* A file name is a sequence of one-character strings.                     *)
(***************************************************************************)
Digits == {"0", "1", "2", "3", "4", "5", "6", "7", "8", "9"}

DigitVal(c) ==
    CASE c = "0" -> 0 [] c = "1" -> 1 [] c = "2" -> 2 [] c = "3" -> 3
      [] c = "4" -> 4 [] c = "5" -> 5 [] c = "6" -> 6 [] c = "7" -> 7
      [] c = "8" -> 8 [] c = "9" -> 9

\* re.compile(r'^\d{8}$').match(name): eight digits from the start, and then
\* the end of the string; Python's $ also matches before a final newline.
date_pattern_match(name) ==
    /\ Len(name) >= 8
    /\ \A i \in 1..8 : name[i] \in Digits
    /\ \/ Len(name) = 8
       \/ Len(name) = 9 /\ name[9] = "\n"

IsLeap(y) == (y % 4 = 0 /\ y % 100 # 0) \/ y % 400 = 0

DaysInMonth(y, m) ==
    CASE m \in {1, 3, 5, 7, 8, 10, 12} -> 31
      [] m \in {4, 6, 9, 11} -> 30
      [] m = 2 -> IF IsLeap(y) THEN 29 ELSE 28
      [] OTHER -> 0

RECURSIVE Num(_)
\* int() of a string of digits.
Num(ds) == IF ds = <<>> THEN 0 ELSE 10 * Num(SubSeq(ds, 1, Len(ds) - 1)) + DigitVal(ds[Len(ds)])

\* The ValueError pd.to_datetime raises, as a value no timestamp equals.
ValueError == [year |-> 0, month |-> 0, day |-> 0]

\* pd.to_datetime(date_str, format='%Y%m%d'): the timestamp, or ValueError
\* when the text is not exactly %Y%m%d (unconverted data, a trailing newline
\* included) or the fields are no day of the calendar.
to_datetime(date_str) ==
    IF Len(date_str) # 8 \/ \E i \in 1..Len(date_str) : date_str[i] \notin Digits
    THEN ValueError
    ELSE LET y == Num(SubSeq(date_str, 1, 4))
             m == Num(SubSeq(date_str, 5, 6))
             d == Num(SubSeq(date_str, 7, 8))
         IN  IF m >= 1 /\ m <= 12 /\ d >= 1 /\ d <= DaysInMonth(y, m)
             THEN [year |-> y, month |-> m, day |-> d]
             ELSE ValueError

\* The names a directory entry may carry in the model.
N20230101  == <<"2", "0", "2", "3", "0", "1", "0", "1">>
N20230615  == <<"2", "0", "2", "3", "0", "6", "1", "5">>
N20240229  == <<"2", "0", "2", "4", "0", "2", "2", "9">>
N20230229  == <<"2", "0", "2", "3", "0", "2", "2", "9">>
N2023010   == <<"2", "0", "2", "3", "0", "1", "0">>
N202301011 == <<"2", "0", "2", "3", "0", "1", "0", "1", "1">>
N2023010a  == <<"2", "0", "2", "3", "0", "1", "0", "a">>
Nbadname   == <<"b", "a", "d", "n", "a", "m", "e">>
N20230101nl == <<"2", "0", "2", "3", "0", "1", "0", "1", "\n">>

EntryNames == {N20230101, N20230615, N20240229, N20230229, N2023010,
               N202301011, N2023010a, Nbadname, N20230101nl}

PlotNames == {"PlotA", "PlotB"}

\* An entry of a plot directory: root/plot/name, a directory or a plain file.
Entries == [plot : PlotNames, name : EntryNames, kind : {"dir", "file"}]

\* The directory trees of the model: each plot id is a directory, a plain file
\* or missing; only a directory has entries, and no two of them share a name.
IsTree(pk, t) ==
    /\ \A e \in t : pk[e.plot] = "dir"
    /\ \A e1, e2 \in t : (e1.plot = e2.plot /\ e1.name = e2.name) => e1 = e2

RECURSIVE SubsetsUpTo(_, _)
\* The subsets of S with at most n elements.
SubsetsUpTo(S, n) ==
    IF n = 0 THEN {{}}
    ELSE LET smaller == SubsetsUpTo(S, n - 1)
         IN  smaller \cup {T \cup {x} : T \in smaller, x \in S}

ScanIdle ==
    /\ plotKind = [p \in PlotNames |-> "none"]
    /\ tree = {}
    /\ scanPc = "idle"
    /\ plotsLeft = {}
    /\ plot_dir = None
    /\ datesLeft = {}
    /\ data = <<>>
    /\ scanWarnings = 0

\* parse_directory_structure(base_path) is entered: data = [].
ScanInit ==
    /\ plotKind \in [PlotNames -> {"dir", "file", "none"}]
    /\ tree \in SubsetsUpTo(Entries, MaxEntries)
    /\ IsTree(plotKind, tree)
    /\ scanPc = "plots"
    /\ plotsLeft = {p \in PlotNames : plotKind[p] # "none"}
    /\ plot_dir = None
    /\ datesLeft = {}
    /\ data = <<>>
    /\ scanWarnings = 0

\* Lines 36-51, one entry of a plot directory: "visit", "warning" or "skip".
DateDirOutcomeNoDirCheck(kind, name) ==
    IF date_pattern_match(name)
    THEN IF to_datetime(name) = ValueError THEN "warning" ELSE "visit"
    ELSE "skip"

DateDirOutcomeWarnsOnBadName(kind, name) ==
    IF kind = "dir" /\ date_pattern_match(name)
    THEN IF to_datetime(name) = ValueError THEN "warning" ELSE "visit"
    ELSE "warning"

DateDirOutcome(kind, name) ==
    IF kind = "dir" /\ date_pattern_match(name)
    THEN IF to_datetime(name) = ValueError THEN "warning" ELSE "visit"
    ELSE "skip"

\* for plot_dir in base_path.iterdir(): if plot_dir.is_dir(): ...
\* The order is the file system's.
ScanNextPlot ==
    /\ scanPc = "plots"
    /\ \E p \in plotsLeft :
        /\ plotsLeft' = plotsLeft \ {p}
        /\ IF plotKind[p] = "dir"
           THEN /\ plot_dir' = p
                /\ datesLeft' = {e \in tree : e.plot = p}
                /\ scanPc' = "dates"
           ELSE UNCHANGED <<plot_dir, datesLeft, scanPc>>
    /\ UNCHANGED <<plotKind, tree, data, scanWarnings>>
    /\ UNCHANGED scanOthers

\* for date_dir in plot_dir.iterdir(): one entry.
ScanDateDir ==
    /\ scanPc = "dates"
    /\ \E e \in datesLeft :
        /\ datesLeft' = datesLeft \ {e}
        /\ LET out == DateDirOutcome(e.kind, e.name)
           IN  /\ data' = IF out = "visit"
                          THEN Append(data, [plot_id |-> plot_dir,
                                             visit_date |-> to_datetime(e.name),
                                             full_path |-> <<plot_dir, e.name>>])
                          ELSE data
               /\ scanWarnings' = IF out = "warning" THEN scanWarnings + 1 ELSE scanWarnings
    /\ UNCHANGED <<plotKind, tree, scanPc, plotsLeft, plot_dir>>
    /\ UNCHANGED scanOthers

\* The inner loop ends: back to the loop over the plots.
ScanPlotDone ==
    /\ scanPc = "dates"
    /\ datesLeft = {}
    /\ scanPc' = "plots"
    /\ plot_dir' = None
    /\ UNCHANGED <<plotKind, tree, plotsLeft, datesLeft, data, scanWarnings>>
    /\ UNCHANGED scanOthers

\* return pd.DataFrame(data)
ScanReturn ==
    /\ scanPc = "plots"
    /\ plotsLeft = {}
    /\ scanPc' = "done"
    /\ UNCHANGED <<plotKind, tree, plotsLeft, plot_dir, datesLeft, data, scanWarnings>>
    /\ UNCHANGED scanOthers

ScanNext == ScanNextPlot \/ ScanDateDir \/ ScanPlotDone \/ ScanReturn

(***************************************************************************)
(* C1: when the scan returns, the table holds exactly one Visit for every  *)
(* entry root/P/D that is a directory named by eight digits that are a day *)
(* of the calendar, with plot_id = P, that date and the path of D, and no  *)
(* Visit for any other entry: none for a name that is not eight digits,    *)
(* none for eight digits that are no calendar date, none for a plain file, *)
(* and none twice.                                                         *)
(***************************************************************************)
IsEightDigits(name) == Len(name) = 8 /\ \A i \in 1..Len(name) : name[i] \in Digits

IsCalendarDate(name) ==
    LET y == Num(SubSeq(name, 1, 4))
        m == Num(SubSeq(name, 5, 6))
        d == Num(SubSeq(name, 7, 8))
    IN  m \in 1..12 /\ d \in 1..DaysInMonth(y, m)

ValidVisitEntries ==
    {e \in tree : e.kind = "dir" /\ IsEightDigits(e.name) /\ IsCalendarDate(e.name)}

ExampleTree ==
    {[plot |-> "PlotA", name |-> N20230101, kind |-> "dir"],
     [plot |-> "PlotA", name |-> N20230615, kind |-> "dir"],
     [plot |-> "PlotB", name |-> Nbadname, kind |-> "dir"]}

(***************************************************************************)
(* C12, as claimed: the scan of the root with PlotA/20230101,              *)
(* PlotA/20230615 and PlotB/badname returns exactly 2 rows, both of plot   *)
(* PlotA, none of PlotB, and logs exactly 1 warning.                       *)
(***************************************************************************)
C12_ExampleLogsOneWarning ==
    (scanPc = "done" /\ tree = ExampleTree) =>
        /\ Len(data) = 2
        /\ \A i \in 1..Len(data) : data[i].plot_id = "PlotA"
        /\ scanWarnings = 1

(***************************************************************************)
(* C12, amended: the scan of the root with PlotA/20230101, PlotA/20230615  *)
(* and PlotB/badname returns exactly 2 rows, one for each of the two       *)
(* directories of PlotA, none of PlotB, and logs no warning: a name that   *)
(* is not eight digits is skipped silently.                                *)
(***************************************************************************)
C12_ExampleLogsNoWarning ==
    (scanPc = "done" /\ tree = ExampleTree) =>
        /\ Len(data) = 2
        /\ {data[i].full_path : i \in 1..Len(data)} =
              {<<"PlotA", N20230101>>, <<"PlotA", N20230615>>}
        /\ \A i \in 1..Len(data) : data[i].plot_id = "PlotA"
        /\ scanWarnings = 0

\* The finished scan of the root of the example.
C12_Witness ==
    /\ scanPc = "done"
    /\ tree = ExampleTree
    /\ plotsLeft = {}
    /\ Len(data) = 2

(***************************************************************************)
(* MetadataExtractor: extract_tif_metadata.                                *)
(*                                                                         *)
(* The files below directory_path are listed as the file system walks      *)
(* them: each with the directory that holds it ("." is directory_path      *)
(* itself, "deep" any directory but directory_path and its four            *)
(* conventional subdirectories) and the tail of its name. A file is known  *)
(* by its place in the listing. A subdirectory exists when it holds a      *)
(* file; one that does not exist and an empty one both add nothing.        *)
(***************************************************************************)
Subdirs == <<"imagery", "rgb", "multispec", "level0_raw">>

Dirs == <<".", "imagery", "rgb", "multispec", "level0_raw", "deep">>

Tails == {".tif", "_cog.tif", ".jpg"}

\* The cap of the recursive search: [:3].
RecursiveCap == 3

DirRank(d) == CHOOSE i \in 1..Len(Dirs) : Dirs[i] = d

SeqsUpTo(S, n) == UNION {[1..k -> S] : k \in 0..n}

\* A walk yields the files of one directory together.
IsListing(l) == \A i, j \in 1..Len(l) : i < j => DirRank(l[i].dir) <= DirRank(l[j].dir)

Listings == {l \in SeqsUpTo([dir : Range(Dirs), tail : Tails], MaxFiles) : IsListing(l)}

\* The files of a listing, each with its place.
FilesOf(l) == [i \in 1..Len(l) |-> [id |-> i, dir |-> l[i].dir, tail |-> l[i].tail]]

\* Path(f).name: the i-th file of the listing is img<i> and its tail.
TifName(f) == "img" \o ToString(f.id) \o f.tail

\* f.name.endswith('_cog.tif')
EndsWithCogTif(f) == f.tail = "_cog.tif"

\* fnmatch of the name against *.tif
MatchesTif(f) == f.tail \in {".tif", "_cog.tif"}

\* [f for f in list(path.glob('*.tif')) if not f.name.endswith('_cog.tif')]
GlobNoCogUnfiltered(files, d) == SelectSeq(files, LAMBDA f : f.dir = d /\ MatchesTif(f))

GlobNoCog(files, d) ==
    SelectSeq(files, LAMBDA f : f.dir = d /\ MatchesTif(f) /\ ~EndsWithCogTif(f))

\* Lines 239-241.
Stage1(files) == GlobNoCog(files, ".")

RECURSIVE Stage2From(_, _)
Stage2From(files, subs) ==
    IF subs = <<>> THEN <<>>
    ELSE GlobNoCog(files, Head(subs)) \o Stage2From(files, Tail(subs))

\* Lines 246-252: tif_files.extend(subdir_files) for each subdirectory in order.
Stage2(files) == Stage2From(files, Subdirs)

\* Lines 257-258: directory_path.glob('**/*.tif'), filtered, then [:3].
Stage3(files) ==
    Take(SelectSeq(files, LAMBDA f : MatchesTif(f) /\ ~EndsWithCogTif(f)), RecursiveCap)

\* Lines 239-258 as one function: the files located.
LocateTifs(files) ==
    IF Stage1(files) # <<>> THEN Stage1(files)
    ELSE IF Stage2(files) # <<>> THEN Stage2(files)
    ELSE Stage3(files)

(***************************************************************************)
(* The external process: what subprocess.run(['exiftool', '-j', file])     *)
(* does. It raises, or completes with a return code and a standard output. *)
(* The JSON values json.loads may return are told apart by their shape.    *)
(***************************************************************************)
TagNames == {"Software", "SwVersion"}

\* A record of tags: a missing key is None, as metadata.get() reports it.
TagRecords == [Software : {None, "v1"}, SwVersion : {None, "1.0.2"}]

Stdouts ==
    [shape : {"empty", "blank", "nonjson", "list0", "object", "number", "string", "listnum"}]
    \cup [shape : {"listrec"}, rec : TagRecords]

ToolOutcomes ==
    [kind : {"FileNotFoundError", "PermissionError", "TimeoutExpired"}]
    \cup [kind : {"completed"}, returncode : {0, 1}, stdout : Stdouts]

\* result.stdout.strip() is truthy
StdoutTruthy(out) == out.shape \notin {"empty", "blank"}

\* The lists of requested fields the model calls with: the default of
\* extract_tif_metadata and the default of extract_metadata.
FieldLists == {<<"Software", "SwVersion">>, <<"SwVersion">>}

\* {field: None for field in fields}
AllAbsent(fields) == [k \in Range(fields) |-> None]

Returned(value, warned) == [kind |-> "return", value |-> value, exc |-> None, warned |-> warned]

Raised(exc) == [kind |-> "raise", value |-> <<>>, exc |-> exc, warned |-> FALSE]

\* Lines 273-282: json.loads(result.stdout)[0], then the projection.
ParseFirstRecord(out, fields, first_tif) ==
    CASE out.shape = "nonjson" -> Returned(AllAbsent(fields), TRUE)   \* JSONDecodeError, caught
      [] out.shape = "list0"   -> Returned(AllAbsent(fields), TRUE)   \* IndexError, caught
      [] out.shape = "object"  -> Raised("KeyError")                  \* {...}[0]
      [] out.shape = "number"  -> Raised("TypeError")                 \* 5[0]
      [] out.shape = "string"  -> Raised("AttributeError")            \* "abc"[0].get
      [] out.shape = "listnum" -> Raised("AttributeError")            \* [5][0].get
      [] out.shape = "listrec" ->
            Returned([k \in Range(fields) \cup {"metadata_source"} |->
                         IF k = "metadata_source" THEN TifName(first_tif) ELSE out.rec[k]],
                     FALSE)

\* Lines 268-289: the try block around subprocess.run.  The except clause
\* names SubprocessError (TimeoutExpired is one), JSONDecodeError, IndexError
\* and FileNotFoundError.
RunExiftool(outcome, fields, first_tif) ==
    CASE outcome.kind = "FileNotFoundError" -> Returned(AllAbsent(fields), TRUE)
      [] outcome.kind = "TimeoutExpired"    -> Returned(AllAbsent(fields), TRUE)
      [] outcome.kind = "PermissionError"   -> Raised("PermissionError")
      [] outcome.kind = "completed" ->
            IF outcome.returncode = 0 /\ StdoutTruthy(outcome.stdout)
            THEN ParseFirstRecord(outcome.stdout, fields, first_tif)
            ELSE Returned(AllAbsent(fields), FALSE)

NoResult == [kind |-> "none", value |-> <<>>, exc |-> None, warned |-> FALSE]

NoOutcome == [kind |-> "none"]

OneIdle ==
    /\ listing = <<>>
    /\ oneFields = <<>>
    /\ onePc = "idle"
    /\ tif_files = <<>>
    /\ stagesRun = <<>>
    /\ toolCalls = <<>>
    /\ toolOutcome = NoOutcome
    /\ oneResult = NoResult

\* extract_tif_metadata(directory_path, oneFields) is entered.
OneInit ==
    /\ listing \in Listings
    /\ oneFields \in FieldLists
    /\ onePc = "stage1"
    /\ tif_files = <<>>
    /\ stagesRun = <<>>
    /\ toolCalls = <<>>
    /\ toolOutcome = NoOutcome
    /\ oneResult = NoResult

\* Lines 239-244: the files of directory_path itself.
OneStage1 ==
    /\ onePc = "stage1"
    /\ tif_files' = Stage1(FilesOf(listing))
    /\ stagesRun' = Append(stagesRun, "stage1")
    /\ onePc' = IF tif_files' = <<>> THEN "stage2" ELSE "found"
    /\ UNCHANGED <<listing, oneFields, toolCalls, toolOutcome, oneResult>>
    /\ UNCHANGED oneOthers

\* Lines 246-255: the conventional subdirectories.
OneStage2 ==
    /\ onePc = "stage2"
    /\ tif_files' = Stage2(FilesOf(listing))
    /\ stagesRun' = Append(stagesRun, "stage2")
    /\ onePc' = IF tif_files' = <<>> THEN "stage3" ELSE "found"
    /\ UNCHANGED <<listing, oneFields, toolCalls, toolOutcome, oneResult>>
    /\ UNCHANGED oneOthers

\* Lines 257-258: the recursive search.
OneStage3 ==
    /\ onePc = "stage3"
    /\ tif_files' = Stage3(FilesOf(listing))
    /\ stagesRun' = Append(stagesRun, "stage3")
    /\ onePc' = "found"
    /\ UNCHANGED <<listing, oneFields, toolCalls, toolOutcome, oneResult>>
    /\ UNCHANGED oneOthers

\* Lines 261-262: no file, every field absent.
OneNoFile ==
    /\ onePc = "found"
    /\ tif_files = <<>>
    /\ oneResult' = Returned(AllAbsent(oneFields), FALSE)
    /\ onePc' = "done"
    /\ UNCHANGED <<listing, oneFields, tif_files, stagesRun, toolCalls, toolOutcome>>
    /\ UNCHANGED oneOthers

\* Lines 265-289: exiftool on the first file, whatever the process does.
OneRunTool ==
    /\ onePc = "found"
    /\ tif_files # <<>>
    /\ \E outcome \in ToolOutcomes :
        /\ toolCalls' = Append(toolCalls, tif_files[1])
        /\ toolOutcome' = outcome
        /\ oneResult' = RunExiftool(outcome, oneFields, tif_files[1])
    /\ onePc' = "done"
    /\ UNCHANGED <<listing, oneFields, tif_files, stagesRun>>
    /\ UNCHANGED oneOthers

OneNext == OneStage1 \/ OneStage2 \/ OneStage3 \/ OneNoFile \/ OneRunTool

(***************************************************************************)
(* C2: extract_tif_metadata looks for its file in three stages, each only  *)
(* when the one before found nothing: the image files of the directory;    *)
(* those of imagery, rgb, multispec, level0_raw, gathered in that order;   *)
(* a recursive search that keeps at most 3.  No stage keeps a cog file.    *)
(* Exiftool is started at most once, on the first file located, which is   *)
(* never a cog file; when there is no image that is not a cog file, every  *)
(* requested field comes back absent, no process is started and nothing    *)
(* is raised.                                                              *)
(***************************************************************************)
\* The places in the listing of the source images (not cog) of directory d.
SourceTifsIn(d) ==
    {i \in 1..Len(listing) : listing[i].dir = d /\ listing[i].tail = ".tif"}

SourceTifs == {i \in 1..Len(listing) : listing[i].tail = ".tif"}

Least(S) == CHOOSE i \in S : \A j \in S : i <= j

\* The place of the file the three stages should settle on; 0 when none.
ExpectedFirstTif ==
    IF SourceTifsIn(".") # {} THEN Least(SourceTifsIn("."))
    ELSE IF \E k \in 1..Len(Subdirs) : SourceTifsIn(Subdirs[k]) # {}
         THEN Least(SourceTifsIn(Subdirs[Least({k \in 1..Len(Subdirs) :
                                                   SourceTifsIn(Subdirs[k]) # {}})]))
    ELSE IF SourceTifs # {} THEN Least(SourceTifs)
    ELSE 0

IdsOf(fs) == [i \in 1..Len(fs) |-> fs[i].id]

C2_StagedLookupNeverPicksCog ==
    /\ Len(toolCalls) <= 1
    /\ \A i \in 1..Len(toolCalls) : toolCalls[i].tail # "_cog.tif"
    /\ \A i \in 1..Len(tif_files) : tif_files[i].tail = ".tif"
    /\ stagesRun \in {<<>>, <<"stage1">>, <<"stage1", "stage2">>,
                      <<"stage1", "stage2", "stage3">>}
    /\ Len(stagesRun) >= 2 => SourceTifsIn(".") = {}
    /\ Len(stagesRun) = 3 =>
          \A k \in 1..Len(Subdirs) : SourceTifsIn(Subdirs[k]) = {}
    \* stage 2 gathers every source image of the four subdirectories, the
    \* subdirectories in their order
    /\ (Len(stagesRun) = 2 /\ onePc # "stage3") =>
          /\ Range(IdsOf(tif_files)) =
                UNION {SourceTifsIn(Subdirs[k]) : k \in 1..Len(Subdirs)}
          /\ \A i, j \in 1..Len(tif_files) :
                i < j => /\ DirRank(tif_files[i].dir) <= DirRank(tif_files[j].dir)
                         /\ tif_files[i].id < tif_files[j].id
    \* stage 3 keeps the first three source images
    /\ Len(stagesRun) = 3 =>
          /\ Len(tif_files) <= 3
          /\ Len(tif_files) = IF Cardinality(SourceTifs) < 3
                              THEN Cardinality(SourceTifs) ELSE 3
          /\ \A i \in 1..Len(tif_files) :
                Cardinality({j \in SourceTifs : j < tif_files[i].id}) = i - 1
    /\ onePc = "done" =>
          IF ExpectedFirstTif = 0
          THEN /\ toolCalls = <<>>
               /\ oneResult.kind = "return"
               /\ oneResult.value = [k \in Range(oneFields) |-> None]
          ELSE /\ Len(toolCalls) = 1
               /\ toolCalls[1].id = ExpectedFirstTif

\* A finished call that went through all three stages past cog files in the
\* directory and in a subdirectory and started exiftool on a deeper file.
C2_Witness ==
    /\ onePc = "done"
    /\ stagesRun = <<"stage1", "stage2", "stage3">>
    /\ Len(toolCalls) = 1
    /\ \E i \in 1..Len(listing) : listing[i].dir = "." /\ listing[i].tail = "_cog.tif"
    /\ \E i \in 1..Len(listing) : listing[i].dir = "rgb" /\ listing[i].tail = "_cog.tif"

(***************************************************************************)
(* C3: once a file is located, every failure of the exiftool call (the     *)
(* binary missing, another error starting the process, a non-zero exit, a  *)
(* timeout, output that is not JSON or no non-empty list of records, or    *)
(* no output) ends with a warning logged and every requested field         *)
(* absent, and never with an exception.                                    *)
(***************************************************************************)
IsToolFailure(o) ==
    \/ o.kind \in {"FileNotFoundError", "PermissionError", "TimeoutExpired"}
    \/ /\ o.kind = "completed"
       /\ o.returncode # 0 \/ o.stdout.shape # "listrec"

C3_EveryToolFailureWarnsAndReturnsAbsent ==
    (onePc = "done" /\ toolCalls # <<>> /\ IsToolFailure(toolOutcome)) =>
        /\ oneResult.kind = "return"
        /\ oneResult.warned
        /\ oneResult.value = [k \in Range(oneFields) |-> None]

(***************************************************************************)
(* VisitTable: a table is the sequence of its rows; each row carries its   *)
(* index label, as a pandas DataFrame row does.  filter_date.              *)
(***************************************************************************)
\* The dates a visit of the model may have.
VisitDates == {N20230101, N20230615, N20240229}

VisitRow(label, plot, name) ==
    [label |-> label, plot_id |-> plot, visit_date |-> to_datetime(name),
     full_path |-> <<plot, name>>]

VisitRows == {VisitRow(l, p, n) : l \in 0..MaxRows, p \in PlotNames, n \in VisitDates}

\* The tables of up to n rows: the labels are distinct and ascending, with
\* gaps when the table is itself the result of a filter.
VisitTables(n) ==
    UNION {{t \in [1..k -> VisitRows] : \A i, j \in 1..k : i < j => t[i].label < t[j].label}
           : k \in 0..n}

\* start=None, end=None
Omitted == <<>>

\* The texts passed as start and end: three dates and one that is no date.
DateTexts == {N20230101, N20230615, N20240229, N20230229}

\* a <= b on timestamps
DateLE(a, b) ==
    \/ a.year < b.year
    \/ a.year = b.year /\ a.month < b.month
    \/ a.year = b.year /\ a.month = b.month /\ a.day <= b.day

DateLT(a, b) == DateLE(a, b) /\ a # b

\* Lines 154-158: the mask of one row.
InRangeEndExclusive(d, start, end) ==
    /\ start = Omitted \/ DateLE(to_datetime(start), d)
    /\ end = Omitted \/ DateLT(d, to_datetime(end))

InRange(d, start, end) ==
    /\ start = Omitted \/ DateLE(to_datetime(start), d)
    /\ end = Omitted \/ DateLE(d, to_datetime(end))

FilterIdle ==
    /\ fDf = <<>>
    /\ fDf0 = <<>>
    /\ fStart = Omitted
    /\ fEnd = Omitted
    /\ fPc = "idle"
    /\ fResult = <<>>
    /\ fSameObject = FALSE

\* filter_date(df, start, end) is called.
FilterInit ==
    /\ fDf \in VisitTables(MaxRows)
    /\ fDf0 = fDf
    /\ fStart \in DateTexts \cup {Omitted}
    /\ fEnd \in DateTexts \cup {Omitted}
    /\ fPc = "call"
    /\ fResult = <<>>
    /\ fSameObject = FALSE

\* Lines 151-152: no bound, df itself is returned.
FilterNoBounds ==
    /\ fPc = "call"
    /\ fStart = Omitted /\ fEnd = Omitted
    /\ fResult' = fDf
    /\ fSameObject' = TRUE
    /\ fPc' = "done"
    /\ UNCHANGED <<fDf, fDf0, fStart, fEnd>>
    /\ UNCHANGED filterOthers

\* Lines 154-160: the mask and df.loc[mask]; pd.to_datetime raises on a text
\* that is no date.
FilterMask ==
    /\ fPc = "call"
    /\ ~(fStart = Omitted /\ fEnd = Omitted)
    /\ IF \/ fStart # Omitted /\ to_datetime(fStart) = ValueError
          \/ fEnd # Omitted /\ to_datetime(fEnd) = ValueError
       THEN /\ fPc' = "raised"
            /\ UNCHANGED fResult
       ELSE /\ fPc' = "done"
            /\ fResult' = SelectSeq(fDf, LAMBDA row : InRange(row.visit_date, fStart, fEnd))
    /\ UNCHANGED <<fDf, fDf0, fStart, fEnd, fSameObject>>
    /\ UNCHANGED filterOthers

FilterNext == FilterNoBounds \/ FilterMask

(***************************************************************************)
(* C10: filter_date returns rows of the input in their original order, a   *)
(* row being kept exactly when start <= visit_date <= end, both bounds     *)
(* inclusive and an omitted bound no constraint; with both omitted the     *)
(* result is the input table; the input table is not modified.             *)
(***************************************************************************)
\* A date as the number YYYYMMDD, which orders dates as the calendar does.
DayNumber(name) == Num(name)

C10_FilterDateInclusiveRange ==
    fPc = "done" =>
        /\ \A i \in 1..Len(fResult) : \E j \in 1..Len(fDf0) : fResult[i] = fDf0[j]
        /\ \A i, j \in 1..Len(fResult) : i < j => fResult[i].label < fResult[j].label
        /\ \A j \in 1..Len(fDf0) :
              (\E i \in 1..Len(fResult) : fResult[i] = fDf0[j])
              <=> /\ fStart = Omitted \/ DayNumber(fStart) <= DayNumber(fDf0[j].full_path[2])
                  /\ fEnd = Omitted \/ DayNumber(fDf0[j].full_path[2]) <= DayNumber(fEnd)
        /\ (fStart = Omitted /\ fEnd = Omitted) => fResult = fDf0
        /\ fDf = fDf0

\* A finished call with both bounds given that kept a row on each bound and
\* dropped a row outside them.
C10_Witness ==
    /\ fPc = "done"
    /\ fStart # Omitted /\ fEnd # Omitted /\ fStart # fEnd
    /\ \E i \in 1..Len(fResult) : fResult[i].full_path[2] = fStart
    /\ \E i \in 1..Len(fResult) : fResult[i].full_path[2] = fEnd
    /\ Len(fResult) < Len(fDf0)

(***************************************************************************)
(* BandExtractor: extract_multispec_bands.                                 *)
(*                                                                         *)
(* The search of lines 362-410 (the first existing directory, the _N.tif   *)
(* names, the bounded walk) hands over band_files, the list of the files   *)
(* it found; the model starts from that list.  exiftool -j prints one      *)
(* record for each file it is given, in the order of the files.            *)
(***************************************************************************)
DEFAULT_FIELDS == <<"FileName", "BandName", "CentralWavelength", "WavelengthFWHM">>

\* The lists of fields the model calls with: the default and a caller's own.
BandFieldLists == {DEFAULT_FIELDS, <<"BandName", "Software", "SwVersion">>}

BandFileName(i) == "IMG_0001_" \o ToString(i) \o ".tif"

\* The record exiftool prints for file i: the tags a key of which is missing
\* are None, as metadata.get() reports them.
BandRecordsOf(i) ==
    {[SourceFile        |-> <<"level0_raw", BandFileName(i)>>,
      FileName          |-> BandFileName(i),
      RigCameraIndex    |-> idx,
      BandName          |-> name,
      CentralWavelength |-> IF name = "Red" THEN "668" ELSE None,
      WavelengthFWHM    |-> None,
      Software          |-> sw,
      SwVersion         |-> IF sw = None THEN None ELSE "1.0.2"]
     : idx \in {None, "0", "1"}, name \in {None, "Red"}, sw \in {None, "v1"}}

RECURSIVE BandRecordLists(_)
\* The lists of records exiftool may print for n files.
BandRecordLists(n) ==
    IF n = 0 THEN {<<>>}
    ELSE {Append(l, r) : l \in BandRecordLists(n - 1), r \in BandRecordsOf(n)}

\* The standard output of the batch call: a list of records, one that ends
\* with a value that is no record, or any other shape.
BatchStdouts(n) ==
    [shape : {"empty", "blank", "nonjson", "object", "number", "string"}]
    \cup [shape : {"list", "listbad"}, recs : BandRecordLists(n)]

ProcessErrors == {"FileNotFoundError", "PermissionError", "TimeoutExpired"}

\* What a probe (exiftool -j first_file, exiftool -ver) does.
ProbeOutcomes == [kind : ProcessErrors] \cup [kind : {"completed"}, returncode : {0, 1}]

\* What the batch call does.
BatchOutcomes(n) ==
    [kind : ProcessErrors]
    \cup [kind : {"completed"}, returncode : {0, 1}, stdout : BatchStdouts(n)]

\* A Python dict: its keys in insertion order and its values.
EmptyMap == [keys |-> <<>>, val |-> <<>>]

\* d[k] = v: a new key goes last, a key already there keeps its place.
MapPutFirstWins(d, k, v) ==
    IF k \in Range(d.keys) THEN d
    ELSE [keys |-> Append(d.keys, k),
          val  |-> [x \in Range(d.keys) \cup {k} |-> IF x = k THEN v ELSE d.val[x]]]

MapPut(d, k, v) ==
    [keys |-> IF k \in Range(d.keys) THEN d.keys ELSE Append(d.keys, k),
     val  |-> [x \in Range(d.keys) \cup {k} |-> IF x = k THEN v ELSE d.val[x]]]

\* Path(p).name
PathName(p) == p[Len(p)]

\* Lines 466-470: band_data of one record.
BandDataKeepingSoftware(metadata, fields) ==
    [k \in {"filename", "Software", "SwVersion"} \cup Range(fields) |->
        IF k = "filename" THEN PathName(metadata.SourceFile) ELSE metadata[k]]

BandData(metadata, fields) ==
    [k \in {"filename"} \cup Range(fields) |->
        IF k = "filename" THEN PathName(metadata.SourceFile) ELSE metadata[k]]

RECURSIVE BuildBands(_, _, _)
\* Lines 461-473: the loop over metadata_list.
BuildBands(recs, fields, acc) ==
    IF recs = <<>> THEN acc
    ELSE LET metadata == Head(recs)
             rig_index == metadata.RigCameraIndex
         IN  BuildBands(Tail(recs), fields,
                        IF rig_index # None
                        THEN MapPut(acc, rig_index, BandData(metadata, fields))
                        ELSE acc)

\* Lines 448-484: what the function returns after the batch call.  Whatever
\* is raised is caught at line 482 and the empty mapping returned.
BatchResultPartial(outcome, fields) ==
    IF outcome.kind # "completed" THEN EmptyMap
    ELSE IF outcome.returncode # 0 \/ ~StdoutTruthy(outcome.stdout) THEN EmptyMap
    ELSE IF outcome.stdout.shape \in {"list", "listbad"}
         THEN BuildBands(outcome.stdout.recs, fields, EmptyMap)
    ELSE EmptyMap

BatchResult(outcome, fields) ==
    IF outcome.kind # "completed" THEN EmptyMap                     \* line 482
    ELSE IF outcome.returncode # 0 \/ ~StdoutTruthy(outcome.stdout)
         THEN EmptyMap                                              \* line 453
    ELSE CASE outcome.stdout.shape = "nonjson" -> EmptyMap          \* line 478
           [] outcome.stdout.shape = "object"  -> EmptyMap          \* str.get / no item
           [] outcome.stdout.shape = "number"  -> EmptyMap          \* len(5)
           [] outcome.stdout.shape = "string"  -> EmptyMap          \* str.get
           [] outcome.stdout.shape = "listbad" -> EmptyMap          \* 5.get, line 482
           [] outcome.stdout.shape = "list"    ->
                 BuildBands(outcome.stdout.recs, fields, EmptyMap)

\* The whole of lines 420-484 as one function of what the processes do.
ExtractBands(n, fields, probe, batch) ==
    IF n = 0 THEN EmptyMap
    ELSE IF probe.kind # "completed" \/ probe.returncode # 0 THEN EmptyMap
    ELSE BatchResult(batch, fields)

BandsIdle ==
    /\ bFields = <<>>
    /\ band_files = <<>>
    /\ bPc = "idle"
    /\ bCalls = <<>>
    /\ bResult = EmptyMap

\* extract_multispec_bands has searched for its files.
BandsInit ==
    /\ bFields \in BandFieldLists
    /\ band_files \in {[i \in 1..n |-> BandFileName(i)] : n \in 0..MaxBandFiles}
    /\ bPc = "found"
    /\ bCalls = <<>>
    /\ bResult = EmptyMap

\* Lines 413-415: no file.
BandsNoFiles ==
    /\ bPc = "found"
    /\ band_files = <<>>
    /\ bResult' = EmptyMap
    /\ bPc' = "done"
    /\ UNCHANGED <<bFields, band_files, bCalls>>
    /\ UNCHANGED bandsOthers

\* Lines 425-429: exiftool -j on the first file.
BandsProbe ==
    /\ bPc = "found"
    /\ band_files # <<>>
    /\ \E outcome \in ProbeOutcomes :
        /\ bCalls' = Append(bCalls, [cmd |-> "probe", files |-> <<band_files[1]>>,
                                     outcome |-> outcome])
        /\ bPc' = IF outcome.kind # "completed" THEN "done"
                  ELSE IF outcome.returncode # 0 THEN "version" ELSE "batch"
    /\ bResult' = EmptyMap
    /\ UNCHANGED <<bFields, band_files>>
    /\ UNCHANGED bandsOthers

\* Lines 434-445: exiftool -ver, logged either way, and return {}.
BandsVersionCheck ==
    /\ bPc = "version"
    /\ \E outcome \in ProbeOutcomes :
        bCalls' = Append(bCalls, [cmd |-> "version", files |-> <<>>, outcome |-> outcome])
    /\ bResult' = EmptyMap
    /\ bPc' = "done"
    /\ UNCHANGED <<bFields, band_files>>
    /\ UNCHANGED bandsOthers

\* Lines 448-484: exiftool -j on all the files, and the mapping.
BandsBatch ==
    /\ bPc = "batch"
    /\ \E outcome \in BatchOutcomes(Len(band_files)) :
        /\ bCalls' = Append(bCalls, [cmd |-> "batch", files |-> band_files,
                                     outcome |-> outcome])
        /\ bResult' = BatchResult(outcome, bFields)
    /\ bPc' = "done"
    /\ UNCHANGED <<bFields, band_files>>
    /\ UNCHANGED bandsOthers

BandsNext == BandsNoFiles \/ BandsProbe \/ BandsVersionCheck \/ BandsBatch

(***************************************************************************)
(* C5, as claimed: whenever a file is found, the first process started is  *)
(* the batch call on all the files found, and on success the only one; a   *)
(* single-file probe or a version probe comes only after a failed batch    *)
(* call; on any failure the empty mapping is returned.                     *)
(***************************************************************************)
CallFailed(c) == c.outcome.kind # "completed" \/ c.outcome.returncode # 0

BatchSucceeded(c) ==
    /\ c.cmd = "batch"
    /\ c.outcome.kind = "completed"
    /\ c.outcome.returncode = 0
    /\ c.outcome.stdout.shape = "list"

C5_BatchCallComesFirst ==
    /\ bCalls # <<>> => bCalls[1].cmd = "batch" /\ bCalls[1].files = band_files
    /\ \A i \in 1..Len(bCalls) :
          bCalls[i].cmd \in {"probe", "version"} =>
              \E j \in 1..(i - 1) : bCalls[j].cmd = "batch" /\ ~BatchSucceeded(bCalls[j])
    /\ (bPc = "done" /\ \E i \in 1..Len(bCalls) : BatchSucceeded(bCalls[i])) =>
          Len(bCalls) = 1
    /\ (bPc = "done" /\ ~\E i \in 1..Len(bCalls) : BatchSucceeded(bCalls[i])) =>
          bResult = EmptyMap

(***************************************************************************)
(* C5, amended: whenever a file is found, the first process started is the *)
(* probe, exiftool -j on the first file alone; the batch call on all the   *)
(* files found is started only after the probe exited with 0, so a success *)
(* takes exactly two processes, the probe and then the batch call; the     *)
(* version probe is started only after the single-file probe exited with a *)
(* non-zero code; and on any failure (of the probe or of the batch call)   *)
(* the empty mapping is returned, never a partial one.                     *)
(***************************************************************************)
C5_ProbeComesFirstThenBatch ==
    /\ (bPc = "done" /\ band_files # <<>>) => bCalls # <<>>
    /\ band_files = <<>> => bCalls = <<>>
    /\ bCalls # <<>> =>
          /\ bCalls[1].cmd = "probe"
          /\ bCalls[1].files = <<band_files[1]>>
    /\ Len(bCalls) <= 2
    /\ Len(bCalls) = 2 =>
          \/ /\ bCalls[2].cmd = "batch"
             /\ bCalls[2].files = band_files
             /\ ~CallFailed(bCalls[1])
          \/ /\ bCalls[2].cmd = "version"
             /\ bCalls[1].outcome.kind = "completed"
             /\ bCalls[1].outcome.returncode # 0
    /\ (bPc = "done" /\ \E i \in 1..Len(bCalls) : BatchSucceeded(bCalls[i])) =>
          /\ Len(bCalls) = 2
          /\ bCalls[1].cmd = "probe" /\ bCalls[2].cmd = "batch"
    /\ (bPc = "done" /\ ~\E i \in 1..Len(bCalls) : BatchSucceeded(bCalls[i])) =>
          bResult = EmptyMap

\* A finished call whose probe exited with 0 and whose batch call printed a
\* record with a band index followed by a value that is no record: nothing
\* of the first record is returned.
C5_Witness ==
    /\ bPc = "done"
    /\ Len(bCalls) = 2
    /\ bCalls[2].cmd = "batch"
    /\ bCalls[2].outcome.kind = "completed"
    /\ bCalls[2].outcome.returncode = 0
    /\ bCalls[2].outcome.stdout.shape = "listbad"
    /\ bCalls[2].outcome.stdout.recs[1].RigCameraIndex # None
    /\ bResult = EmptyMap

(***************************************************************************)
(* C6: after a batch call that succeeded, the keys of the mapping returned *)
(* are exactly the band indices the records carry; a record without a band *)
(* index adds nothing; the value of an index is made from the last record  *)
(* that carries it, and holds the file name and exactly the requested      *)
(* fields; two records with one index raise nothing.                       *)
(***************************************************************************)
C6_BandsKeyedByIndexLastWins ==
    (bPc = "done" /\ Len(bCalls) = 2 /\ BatchSucceeded(bCalls[2])) =>
        LET recs == bCalls[2].outcome.stdout.recs
            Carrying(k) == {i \in 1..Len(recs) : recs[i].RigCameraIndex = k}
            LastOf(k) == CHOOSE i \in Carrying(k) : \A j \in Carrying(k) : j <= i
        IN  /\ Range(bResult.keys) =
                  {recs[i].RigCameraIndex : i \in 1..Len(recs)} \ {None}
            /\ DOMAIN bResult.val = Range(bResult.keys)
            /\ \A i, j \in 1..Len(bResult.keys) :
                  bResult.keys[i] = bResult.keys[j] => i = j
            /\ \A k \in Range(bResult.keys) :
                  /\ DOMAIN bResult.val[k] = {"filename"} \cup Range(bFields)
                  /\ bResult.val[k].filename = BandFileName(LastOf(k))
                  /\ \A f \in Range(bFields) : bResult.val[k][f] = recs[LastOf(k)][f]

\* A successful batch call with two records of one band index and a record
\* without any.
C6_Witness ==
    /\ bPc = "done"
    /\ Len(bCalls) = 2
    /\ BatchSucceeded(bCalls[2])
    /\ LET recs == bCalls[2].outcome.stdout.recs
       IN  /\ \E i, j \in 1..Len(recs) :
                 i < j /\ recs[i].RigCameraIndex = recs[j].RigCameraIndex
                       /\ recs[i].RigCameraIndex # None
           /\ \E i \in 1..Len(recs) : recs[i].RigCameraIndex = None

(***************************************************************************)
(* The enrichment of a table of visits, row after row: parse_plots with    *)
(* include_metadata, and extract_metadata.                                 *)
(***************************************************************************)
RECURSIVE DayOfYear(_, _, _)
\* visit_date.dt.dayofyear
DayOfYear(y, m, d) == IF m = 1 THEN d ELSE DaysInMonth(y, m - 1) + DayOfYear(y, m - 1, d)

\* The days from 0001-01-01 to a timestamp.
Ordinal(t) ==
    LET y == t.year - 1
    IN  365 * y + (y \div 4) - (y \div 100) + (y \div 400) + DayOfYear(t.year, t.month, t.day)

MinOrdinal(df) ==
    CHOOSE o \in {Ordinal(df[i].visit_date) : i \in 1..Len(df)} :
        \A i \in 1..Len(df) : o <= Ordinal(df[i].visit_date)

\* Lines 311-314: year, month, day_of_year, days_since_first.
AddDerived(df) ==
    [i \in 1..Len(df) |->
        [label |-> df[i].label, plot_id |-> df[i].plot_id,
         visit_date |-> df[i].visit_date, full_path |-> df[i].full_path,
         year |-> df[i].visit_date.year, month |-> df[i].visit_date.month,
         day_of_year |-> DayOfYear(df[i].visit_date.year, df[i].visit_date.month,
                                   df[i].visit_date.day),
         days_since_first |-> Ordinal(df[i].visit_date) - MinOrdinal(df)]]

\* The order of the plot ids as strings.
PlotRank(p) == IF p = "PlotA" THEN 1 ELSE 2

\* (plot_id, visit_date) of row a comes before that of row b.
SortKeyLess(a, b) ==
    \/ PlotRank(a.plot_id) < PlotRank(b.plot_id)
    \/ a.plot_id = b.plot_id /\ DateLT(a.visit_date, b.visit_date)

RECURSIVE InsertSorted(_, _)
InsertSorted(sorted, r) ==
    IF sorted = <<>> THEN <<r>>
    ELSE IF SortKeyLess(r.row, Head(sorted).row) THEN <<r>> \o sorted
    ELSE <<Head(sorted)>> \o InsertSorted(Tail(sorted), r)

RECURSIVE SortRows(_)
\* df.sort_values(['plot_id', 'visit_date']): a stable sort of the joined rows.
SortRows(rows) ==
    IF rows = <<>> THEN <<>>
    ELSE InsertSorted(SortRows(SubSeq(rows, 1, Len(rows) - 1)), rows[Len(rows)])

\* .reset_index(drop=True)
ResetIndex(rows) ==
    [i \in 1..Len(rows) |->
        [label |-> i - 1, row |-> [rows[i].row EXCEPT !.label = i - 1], meta |-> rows[i].meta]]

\* A table without metadata columns, as joined rows.
Unjoined(df) == [i \in 1..Len(df) |-> [label |-> df[i].label, row |-> df[i], meta |-> <<>>]]

\* The visit directories of the model: empty, one source image, one cog file.
VisitListings ==
    {<<>>, <<[dir |-> ".", tail |-> ".tif"]>>, <<[dir |-> ".", tail |-> "_cog.tif"]>>}

\* extract_tif_metadata(path, fields) as one function of the directory and
\* of what the exiftool process does.
ExtractTifMetadata(l, outcome, fields) ==
    LET located == LocateTifs(FilesOf(l))
    IN  IF located = <<>> THEN Returned(AllAbsent(fields), FALSE)
        ELSE RunExiftool(outcome, fields, located[1])

\* A row that one side of pd.concat(axis=1) does not have: all NaN.
NaNRow == [label |-> -1]

\* The labels of pd.DataFrame(metadata_list): 0..n-1.
MetaLabels(ml) == {i - 1 : i \in 1..Len(ml)}

\* The index of pd.concat([df, metadata_df], axis=1): the labels of df, then
\* the labels only metadata_df has.
ConcatLabels(df, ml) ==
    LET left == [i \in 1..Len(df) |-> df[i].label]
        extra == SelectSeq([i \in 1..Len(ml) |-> i - 1], LAMBDA l : l \notin Range(left))
    IN  left \o extra

\* pd.concat([df, pd.DataFrame(metadata_list)], axis=1): the rows are joined
\* on their labels.
ConcatAxis1(df, ml) ==
    LET labels == ConcatLabels(df, ml)
    IN  [i \in 1..Len(labels) |->
            [label |-> labels[i],
             row   |-> IF \E j \in 1..Len(df) : df[j].label = labels[i]
                       THEN df[CHOOSE j \in 1..Len(df) : df[j].label = labels[i]]
                       ELSE NaNRow,
             meta  |-> IF labels[i] \in MetaLabels(ml) THEN ml[labels[i] + 1] ELSE <<>>]]

NoException == [exc |-> None, where |-> None, outcome |-> NoOutcome]

EnrichIdle ==
    /\ eFn = "none"
    /\ include_metadata = FALSE
    /\ eFields = <<>>
    /\ eDf = <<>>
    /\ ePc = "idle"
    /\ metadata_list = <<>>
    /\ eExc = NoException
    /\ eResult = <<>>

\* parse_plots has scanned base_path (the rows are labelled 0..n-1), or
\* extract_metadata is called with a table.
EnrichInit ==
    /\ eFn \in {"parse_plots", "extract_metadata"}
    /\ IF eFn = "parse_plots"
       THEN /\ include_metadata \in BOOLEAN
            /\ eFields = <<"Software", "SwVersion">>
            /\ eDf \in {t \in VisitTables(MaxRows) : \A i \in 1..Len(t) : t[i].label = i - 1}
       ELSE /\ include_metadata = TRUE
            /\ eFields \in FieldLists
            /\ eDf \in VisitTables(MaxRows)
    /\ ePc = "start"
    /\ metadata_list = <<>>
    /\ eExc = NoException
    /\ eResult = <<>>

\* Lines 305-308: parse_plots on an empty scan.
EnrichEmptyScan ==
    /\ ePc = "start"
    /\ eFn = "parse_plots"
    /\ eDf = <<>>
    /\ eResult' = <<>>
    /\ ePc' = "done"
    /\ UNCHANGED <<eFn, include_metadata, eFields, eDf, metadata_list, eExc>>
    /\ UNCHANGED enrichOthers

\* Lines 311-317: the derived columns of parse_plots.
EnrichDerive ==
    /\ ePc = "start"
    /\ eFn = "parse_plots"
    /\ eDf # <<>>
    /\ eDf' = AddDerived(eDf)
    /\ ePc' = IF include_metadata THEN "loop" ELSE "sort"
    /\ UNCHANGED <<eFn, include_metadata, eFields, metadata_list, eExc, eResult>>
    /\ UNCHANGED enrichOthers

\* Lines 201-207: extract_metadata copies df and starts its loop.
EnrichCopy ==
    /\ ePc = "start"
    /\ eFn = "extract_metadata"
    /\ ePc' = "loop"
    /\ UNCHANGED <<eFn, include_metadata, eFields, eDf, metadata_list, eExc, eResult>>
    /\ UNCHANGED enrichOthers

\* Lines 208-211 and 321-323: one row of the loop.  An exception that
\* extract_tif_metadata lets through leaves the loop and the function.
EnrichVisit ==
    /\ ePc = "loop"
    /\ Len(metadata_list) < Len(eDf)
    /\ \E l \in VisitListings, outcome \in ToolOutcomes :
          LET metadata == ExtractTifMetadata(l, outcome, eFields)
          IN  IF metadata.kind = "raise"
              THEN /\ ePc' = "raised"
                   /\ eExc' = [exc |-> metadata.exc, where |-> "visit", outcome |-> outcome]
                   /\ UNCHANGED metadata_list
              ELSE /\ metadata_list' = Append(metadata_list, metadata.value)
                   /\ UNCHANGED <<ePc, eExc>>
    /\ UNCHANGED <<eFn, include_metadata, eFields, eDf, eResult>>
    /\ UNCHANGED enrichOthers

\* The loop ends.
EnrichLoopDone ==
    /\ ePc = "loop"
    /\ Len(metadata_list) = Len(eDf)
    /\ ePc' = "concat"
    /\ UNCHANGED <<eFn, include_metadata, eFields, eDf, metadata_list, eExc, eResult>>
    /\ UNCHANGED enrichOthers

\* Lines 214-222 and 326-331: the join with the table and the report.  With
\* no row, pd.DataFrame([]) has no column and result_df[field] is a KeyError.
EnrichConcat ==
    /\ ePc = "concat"
    /\ IF metadata_list = <<>> /\ eFields # <<>>
       THEN /\ ePc' = "raised"
            /\ eExc' = [exc |-> "KeyError", where |-> "report", outcome |-> NoOutcome]
            /\ UNCHANGED eResult
       ELSE /\ eResult' = ConcatAxis1(eDf, metadata_list)
            /\ ePc' = IF eFn = "parse_plots" THEN "sort" ELSE "done"
            /\ UNCHANGED eExc
    /\ UNCHANGED <<eFn, include_metadata, eFields, eDf, metadata_list>>
    /\ UNCHANGED enrichOthers

\* Lines 334-339: parse_plots sorts, renumbers and returns.
EnrichSort ==
    /\ ePc = "sort"
    /\ eResult' = ResetIndex(SortRows(IF include_metadata THEN eResult ELSE Unjoined(eDf)))
    /\ ePc' = "done"
    /\ UNCHANGED <<eFn, include_metadata, eFields, eDf, metadata_list, eExc>>
    /\ UNCHANGED enrichOthers

EnrichNext ==
    \/ EnrichEmptyScan \/ EnrichDerive \/ EnrichCopy \/ EnrichVisit
    \/ EnrichLoopDone \/ EnrichConcat \/ EnrichSort

(***************************************************************************)
(* C4: while a table is enriched visit by visit, no failure of the file    *)
(* lookup or of exiftool on one visit ends the run: whatever happens on a  *)
(* visit (success, no file, the binary missing, a non-zero exit, a         *)
(* timeout, malformed output) the loop goes on and the run ends with a     *)
(* result that covers every visit.                                         *)
(***************************************************************************)
\* The outcomes of a visit the claim names: the binary missing, a timeout,
\* and a process that ran to its end (success, a non-zero exit, any output).
NamedOutcome(o) == o.kind \in {"FileNotFoundError", "TimeoutExpired", "completed"}

C4_NoVisitFailureAbortsTheRun ==
    /\ ~(ePc = "raised" /\ eExc.where = "visit" /\ NamedOutcome(eExc.outcome))
    /\ (ePc \in {"concat", "sort", "done"} /\ include_metadata) =>
          Len(metadata_list) = Len(eDf)

(***************************************************************************)
(* C14: extract_metadata returns a table with one row for each row of its  *)
(* input, in order, row i holding the columns of row i of the input and    *)
(* the metadata extracted for row i, whatever the labels of the input rows *)
(* (a filtered table keeps the labels of the rows it kept); the input      *)
(* table is left as it was.                                                *)
(***************************************************************************)
C14_ExtractMetadataAlignsRows ==
    (eFn = "extract_metadata" /\ ePc = "done") =>
        /\ Len(eResult) = Len(eDf)
        /\ \A i \in 1..Len(eDf) :
              /\ i <= Len(eResult)
              /\ eResult[i].row = eDf[i]
              /\ eResult[i].meta = metadata_list[i]

(***************************************************************************)
(* BandAnalyzer: extract_multispec_analysis.                               *)
(***************************************************************************)
\* The tables of visits the analysis is run on: the rows labelled 0..k-1,
\* as parse_plots returns them.
AnalysisRows ==
    {VisitRow(l, p, n) : l \in 0..MaxVisits, p \in PlotNames, n \in {N20230101, N20230615}}

AnalysisTables ==
    UNION {{t \in [1..k -> AnalysisRows] : \A i \in 1..k : t[i].label = i - 1}
           : k \in 0..MaxVisits}

\* What the batch call does in a visit directory of n band files of one
\* camera: its files all carry the band name and the same software tags.
VisitBatchOutcomes(n) ==
    {b \in BatchOutcomes(n) :
        (b.kind = "completed" /\ b.stdout.shape \in {"list", "listbad"}) =>
            \A i \in 1..n : /\ b.stdout.recs[i].BandName = "Red"
                             /\ b.stdout.recs[i].Software = b.stdout.recs[1].Software}

\* The Software tag of the first record the batch call printed, None when
\* no list of records was printed.
ReportedSoftware(n, probe, batch) ==
    IF /\ n > 0
       /\ probe.kind = "completed" /\ probe.returncode = 0
       /\ batch.kind = "completed" /\ batch.returncode = 0
       /\ batch.stdout.shape = "list"
    THEN batch.stdout.recs[1].Software
    ELSE None

\* What extract_multispec_bands may return on a visit directory with up to
\* two band files, over all that the exiftool processes may do, with the
\* Software tag that exiftool printed.
VisitBands(fields) ==
    UNION {{[bands    |-> ExtractBands(n, fields, probe, batch),
             software |-> ReportedSoftware(n, probe, batch)] :
                probe \in ProbeOutcomes, batch \in VisitBatchOutcomes(n)} : n \in 0..2}

\* f"Band{rig_index}_{field}"
BandColumn(rig_index, field) == "Band" \o rig_index \o "_" \o field

\* dict.get(key): None for a key the dict does not have.
Get(d, key) == IF key \in DOMAIN d THEN d[key] ELSE None

\* Lines 525-544: the record of one visit.
VisitRecord(row, bands, fields) ==
    LET first_band == bands.val[bands.keys[1]]
        columns ==
            IF bands.keys = <<>> THEN {}
            ELSE {"Software", "SwVersion"}
                 \cup {BandColumn(k, f) : k \in Range(bands.keys),
                                          f \in Range(fields) \ {"RigCameraIndex"}}
    IN  [plot_id |-> row.plot_id,
         visit_date |-> row.visit_date,
         full_path |-> row.full_path,
         cols |-> [c \in columns |->
                     IF c = "Software" THEN Get(first_band, "Software")
                     ELSE IF c = "SwVersion" THEN Get(first_band, "SwVersion")
                     ELSE LET k == CHOOSE k \in Range(bands.keys) :
                                      \E f \in Range(fields) : c = BandColumn(k, f)
                              f == CHOOSE f \in Range(fields) : c = BandColumn(k, f)
                          IN  Get(bands.val[k], f)]]

\* Line 546: data.append(record), whatever the bands.
AppendRecordIfBands(records, record, bands) ==
    IF bands.keys = <<>> THEN records ELSE Append(records, record)

AppendRecord(records, record, bands) == Append(records, record)

AnalysisIdle ==
    /\ aDf = <<>>
    /\ aFields = <<>>
    /\ aPc = "idle"
    /\ aBands = <<>>
    /\ aData = <<>>
    /\ total_processed = 0
    /\ aResult = <<>>
    /\ aReported = <<>>

\* extract_multispec_analysis(plot_df, fields) is entered.
AnalysisInit ==
    /\ aDf \in AnalysisTables
    /\ aFields \in BandFieldLists
    /\ aPc = "loop"
    /\ aBands = <<>>
    /\ aData = <<>>
    /\ total_processed = 0
    /\ aResult = <<>>
    /\ aReported = <<>>

\* Lines 512-546: one row of plot_df.
AnalysisVisit ==
    /\ aPc = "loop"
    /\ Len(aBands) < Len(aDf)
    /\ \E visit \in VisitBands(aFields) :
          LET row == aDf[Len(aBands) + 1]
              bands_metadata == visit.bands
          IN  /\ aBands' = Append(aBands, bands_metadata)
              /\ aReported' = Append(aReported, visit.software)
              /\ aData' = AppendRecord(aData, VisitRecord(row, bands_metadata, aFields),
                                       bands_metadata)
              /\ total_processed' = IF bands_metadata.keys # <<>>
                                    THEN total_processed + 1 ELSE total_processed
    /\ UNCHANGED <<aDf, aFields, aPc, aResult>>
    /\ UNCHANGED analysisOthers

\* Lines 553-556: pd.DataFrame(data) is returned.
AnalysisReturn ==
    /\ aPc = "loop"
    /\ Len(aBands) = Len(aDf)
    /\ aResult' = aData
    /\ aPc' = "done"
    /\ UNCHANGED <<aDf, aFields, aBands, aData, total_processed, aReported>>
    /\ UNCHANGED analysisOthers

AnalysisNext == AnalysisVisit \/ AnalysisReturn

(***************************************************************************)
(* C7: extract_multispec_analysis returns one record for each row of the   *)
(* input, in the order of the rows, with the plot id, the date and the     *)
(* path of its row; a visit for which extract_multispec_bands returned the *)
(* empty mapping has its record too, without Software, SwVersion or any    *)
(* Band column; the number of rows is that of the input.                   *)
(***************************************************************************)
C7_OneRecordPerVisitInOrder ==
    /\ Len(aData) = Len(aBands)
    /\ aPc = "done" =>
          /\ Len(aResult) = Len(aDf)
          /\ \A i \in 1..Len(aDf) :
                /\ aResult[i].plot_id = aDf[i].plot_id
                /\ aResult[i].visit_date = aDf[i].visit_date
                /\ aResult[i].full_path = aDf[i].full_path
                /\ aBands[i] = EmptyMap => DOMAIN aResult[i].cols = {}
                /\ aBands[i] # EmptyMap =>
                      /\ {"Software", "SwVersion"} \subseteq DOMAIN aResult[i].cols
                      /\ \A k \in Range(aBands[i].keys),
                            f \in Range(aFields) \ {"RigCameraIndex"} :
                            /\ BandColumn(k, f) \in DOMAIN aResult[i].cols
                            /\ aResult[i].cols[BandColumn(k, f)] = aBands[i].val[k][f]

\* A finished analysis of two visits, the first without bands, the second
\* with bands.
C7_Witness ==
    /\ aPc = "done"
    /\ Len(aDf) >= 2
    /\ aBands[1] = EmptyMap
    /\ aBands[2] # EmptyMap
    /\ Len(aResult) = Len(aDf)

(***************************************************************************)
(* BandAnalyzer: compare_band_assignments and create_band_table.           *)
(***************************************************************************)
\* A missing cell of a pivot table.
NaN == "NaN"

\* A column of the table: Band{band}_{field}, or Software (no band).
Col(b, f) == [band |-> b, field |-> f]

SoftwareCol == Col(None, "Software")

AllColumns ==
    <<SoftwareCol,
      Col("0", "BandName"), Col("0", "CentralWavelength"), Col("0", "WavelengthFWHM"),
      Col("1", "BandName"), Col("1", "CentralWavelength"), Col("1", "WavelengthFWHM")>>

\* The columns of the tables handed in: all of them, all but Software, and
\* what extract_multispec_analysis leaves when it is asked for fewer fields.
ColumnLayouts ==
    {AllColumns,
     SelectSeq(AllColumns, LAMBDA c : c # SoftwareCol),
     SelectSeq(AllColumns, LAMBDA c : c.field \in {"Software", "BandName"}),
     SelectSeq(AllColumns, LAMBDA c : c.field # "WavelengthFWHM")}

Band0Cells ==
    {<<None, None, None>>, <<"Red", "660", "10">>, <<"Red", "668", "10">>,
     <<"Red", None, None>>, <<"Red", "660", None>>, <<"Blue", "475", "20">>}

Band1Cells == {<<None, None, None>>, <<"Green", "560", "20">>}

FieldIndex(f) ==
    IF f = "BandName" THEN 1 ELSE IF f = "CentralWavelength" THEN 2 ELSE 3

\* The rows of a table with the given columns.
CompareRows(columns) ==
    {[c \in Range(columns) |->
         IF c = SoftwareCol THEN sw
         ELSE IF c.band = "0" THEN b0[FieldIndex(c.field)]
         ELSE b1[FieldIndex(c.field)]]
     : sw \in {None, "v1", "v2"}, b0 \in Band0Cells, b1 \in Band1Cells}

CompareTables ==
    UNION {UNION {[columns : {columns}, rows : [1..k -> CompareRows(columns)]]
                  : k \in 0..MaxTableRows} : columns \in ColumnLayouts}

\* The order of the strings of the tables.
SortedStrings ==
    <<"0", "1", "10", "20", "475", "560", "660", "668",
      "Blue", "Green", "Red", "v1", "v2">>

StrRank(s) == CHOOSE i \in 1..Len(SortedStrings) : SortedStrings[i] = s

RECURSIVE Unique(_)
\* Series.unique(): the values in the order of their first appearance.
Unique(s) ==
    IF s = <<>> THEN <<>>
    ELSE LET rest == Unique(Take(s, Len(s) - 1))
             last == s[Len(s)]
         IN  IF last \in Range(rest) THEN rest ELSE Append(rest, last)

\* Series.dropna()
DropNa(s) == SelectSeq(s, LAMBDA v : v # None)

Occurrences(s, v) == Cardinality({i \in 1..Len(s) : s[i] = v})

RECURSIVE InsertByCount(_, _)
InsertByCount(sorted, e) ==
    IF sorted = <<>> THEN <<e>>
    ELSE IF e.count > sorted[1].count THEN <<e>> \o sorted
    ELSE <<sorted[1]>> \o InsertByCount(Tail(sorted), e)

RECURSIVE SortByCount(_)
SortByCount(s) ==
    IF s = <<>> THEN <<>>
    ELSE InsertByCount(SortByCount(Take(s, Len(s) - 1)), s[Len(s)])

\* Series.value_counts(): the values that are not missing with the number of
\* their rows, the most frequent first.
ValueCounts(s) ==
    LET values == Unique(DropNa(s))
    IN  SortByCount([i \in 1..Len(values) |->
                        [name |-> values[i], count |-> Occurrences(s, values[i])]])

\* Series.mode(): the most frequent of the values that are not missing, in
\* ascending order.
Mode(s) ==
    LET values == Range(DropNa(s))
    IN  {v \in values : \A w \in values : Occurrences(s, v) >= Occurrences(s, w)}

Smallest(S) == CHOOSE v \in S : \A w \in S : StrRank(v) <= StrRank(w)

\* df[col] of the rows kept; KeyError when the table has no such column.
ColumnOf(df, kept, c) ==
    [i \in 1..Len(kept) |-> kept[i][c]]

\* Lines 600 and 603: Series.mode().iloc[0] of the column of the rows of the
\* version that carry the band name, None only for an empty selection.
ModeOrNone(df, kept, c) ==
    IF c \notin Range(df.columns) THEN [exc |-> "KeyError", value |-> None]
    ELSE IF kept = <<>> THEN [exc |-> None, value |-> None]
    ELSE IF Mode(ColumnOf(df, kept, c)) = {} THEN [exc |-> "IndexError", value |-> None]
    ELSE [exc |-> None, value |-> Smallest(Mode(ColumnOf(df, kept, c)))]

\* Line 574
Versions(df) ==
    Unique(DropNa([i \in 1..Len(df.rows) |-> df.rows[i][SoftwareCol]]))

\* Line 577: the columns named Band..._BandName.
BandCols(df) ==
    SelectSeq(df.columns, LAMBDA c : c.band # None /\ c.field = "BandName")

\* Lines 592-612: the records of one band column of one version, or the
\* exception of the first band name that raises.
RECURSIVE SummariseNames(_, _, _, _, _)
SummariseNames(df, version, band_col, counts, acc) ==
    IF counts = <<>> THEN [exc |-> None, data |-> acc]
    ELSE
        LET version_df == SelectSeq(df.rows, LAMBDA r : r[SoftwareCol] = version)
            band_name == counts[1].name
            kept == SelectSeq(version_df, LAMBDA r : r[band_col] = band_name)
            wavelength == ModeOrNone(df, kept, Col(band_col.band, "CentralWavelength"))
            fwhm == ModeOrNone(df, kept, Col(band_col.band, "WavelengthFWHM"))
        IN  IF wavelength.exc # None THEN [exc |-> wavelength.exc, data |-> acc]
            ELSE IF fwhm.exc # None THEN [exc |-> fwhm.exc, data |-> acc]
            ELSE SummariseNames(df, version, band_col, Tail(counts),
                    Append(acc, [Software          |-> version,
                                 RigCameraIndex    |-> band_col.band,
                                 BandName          |-> band_name,
                                 Count             |-> counts[1].count,
                                 CentralWavelength |-> wavelength.value,
                                 WavelengthFWHM    |-> fwhm.value]))

\* Lines 587-590
RECURSIVE SummariseCols(_, _, _, _)
SummariseCols(df, version, band_cols, acc) ==
    IF band_cols = <<>> THEN [exc |-> None, data |-> acc]
    ELSE
        LET version_df == SelectSeq(df.rows, LAMBDA r : r[SoftwareCol] = version)
            value_counts == ValueCounts(ColumnOf(df, version_df, band_cols[1]))
            done == SummariseNames(df, version, band_cols[1], value_counts, acc)
        IN  IF done.exc # None THEN done
            ELSE SummariseCols(df, version, Tail(band_cols), done.data)

\* Lines 583-585
RECURSIVE SummariseVersions(_, _, _)
SummariseVersions(df, versions, acc) ==
    IF versions = <<>> THEN [exc |-> None, data |-> acc]
    ELSE LET done == SummariseCols(df, versions[1], BandCols(df), acc)
         IN  IF done.exc # None THEN done
             ELSE SummariseVersions(df, Tail(versions), done.data)

SummaryLess(a, b) ==
    \/ StrRank(a.Software) < StrRank(b.Software)
    \/ /\ a.Software = b.Software
       /\ StrRank(a.RigCameraIndex) < StrRank(b.RigCameraIndex)

RECURSIVE InsertSummary(_, _)
InsertSummary(sorted, e) ==
    IF sorted = <<>> THEN <<e>>
    ELSE IF SummaryLess(e, sorted[1]) THEN <<e>> \o sorted
    ELSE <<sorted[1]>> \o InsertSummary(Tail(sorted), e)

RECURSIVE SortSummary(_)
\* Lines 615-617: sort_values(['Software', 'RigCameraIndex']), a stable sort.
SortSummary(s) ==
    IF s = <<>> THEN <<>>
    ELSE InsertSummary(SortSummary(Take(s, Len(s) - 1)), s[Len(s)])

RECURSIVE SortStrings(_)
SortStrings(S) ==
    IF S = {} THEN <<>>
    ELSE <<Smallest(S)>> \o SortStrings(S \ {Smallest(S)})

EmptyTable == [index |-> <<>>, columns |-> <<>>, cell |-> <<>>]

\* DataFrame.pivot_table(index='Software', columns='RigCameraIndex',
\* values=value, aggfunc=first): the value of the first record of each
\* pair, NaN for a pair without a record.
PivotTable(summary, value) ==
    LET index == SortStrings({summary[i].Software : i \in 1..Len(summary)})
        columns == SortStrings({summary[i].RigCameraIndex : i \in 1..Len(summary)})
        Of(sw, idx) == SelectSeq(summary,
                           LAMBDA r : r.Software = sw /\ r.RigCameraIndex = idx)
    IN  [index |-> index,
         columns |-> columns,
         cell |-> [p \in Range(index) \X Range(columns) |->
                     IF Of(p[1], p[2]) = <<>> THEN NaN
                     ELSE Of(p[1], p[2])[1][value]]]

\* Series.astype(str): a missing cell becomes the text "nan" with pandas 2,
\* and stays missing with pandas 3.
AsTypeStr(v, keeps_missing) ==
    IF v = NaN THEN (IF keeps_missing THEN NaN ELSE "nan") ELSE v

\* The + of two columns of text: missing where either is missing.
Plus(a, b) == IF a = NaN \/ b = NaN THEN NaN ELSE a \o b

\* Lines 654-657
FormatCells(pivot, wavelength, keeps_missing) ==
    [pivot EXCEPT !.cell =
        [p \in DOMAIN pivot.cell |->
            Plus(Plus(Plus(AsTypeStr(pivot.cell[p], keeps_missing), " ("),
                      AsTypeStr(wavelength.cell[p], keeps_missing)), " nm)")]]

CompareIdle ==
    /\ cDf = [columns |-> <<>>, rows |-> <<>>]
    /\ cPc = "idle"
    /\ cExc = None
    /\ summary_df = <<>>
    /\ pivot_df = EmptyTable

\* create_band_table(df) is entered, and compare_band_assignments(df) in it.
CompareInit ==
    /\ cDf \in CompareTables
    /\ cPc = "start"
    /\ cExc = None
    /\ summary_df = <<>>
    /\ pivot_df = EmptyTable

\* Lines 569-571: without a Software column, the empty table.
CompareNoSoftware ==
    /\ cPc = "start"
    /\ SoftwareCol \notin Range(cDf.columns)
    /\ cPc' = "summary"
    /\ UNCHANGED <<cDf, cExc, summary_df, pivot_df>>
    /\ UNCHANGED compareOthers

\* Lines 574-619
CompareSummarise ==
    /\ cPc = "start"
    /\ SoftwareCol \in Range(cDf.columns)
    /\ LET done == SummariseVersions(cDf, Versions(cDf), <<>>)
       IN  IF done.exc # None
           THEN /\ cPc' = "raised"
                /\ cExc' = done.exc
                /\ UNCHANGED summary_df
           ELSE /\ cPc' = "summary"
                /\ summary_df' = SortSummary(done.data)
                /\ UNCHANGED cExc
    /\ UNCHANGED <<cDf, pivot_df>>
    /\ UNCHANGED compareOthers

\* Lines 635-636: create_band_table returns the empty table for an empty
\* summary.
TableEmpty ==
    /\ cPc = "summary"
    /\ summary_df = <<>>
    /\ cPc' = "table"
    /\ UNCHANGED <<cDf, cExc, summary_df, pivot_df>>
    /\ UNCHANGED compareOthers

\* Lines 639-659
TablePivot ==
    /\ cPc = "summary"
    /\ summary_df # <<>>
    /\ \E keeps_missing \in BOOLEAN :
          pivot_df' = FormatCells(PivotTable(summary_df, "BandName"),
                                  PivotTable(summary_df, "CentralWavelength"),
                                  keeps_missing)
    /\ cPc' = "table"
    /\ UNCHANGED <<cDf, cExc, summary_df>>
    /\ UNCHANGED compareOthers

CompareNext == CompareNoSoftware \/ CompareSummarise \/ TableEmpty \/ TablePivot

\* The (firmware, band index, band name) triples that occur in a row.
Triples(df) ==
    {<<r[SoftwareCol], c.band, r[c]>> :
        r \in Range(df.rows), c \in Range(BandCols(df))}
    \cap {t \in {None, "v1", "v2"} \X {"0", "1"} \X {None, "Red", "Blue", "Green"} :
            t[1] # None /\ t[3] # None}

RowsOfTriple(df, t) ==
    SelectSeq(df.rows, LAMBDA r : r[SoftwareCol] = t[1] /\ r[Col(t[2], "BandName")] = t[3])

\* The most frequent value of a field among the rows of a triple, None when
\* the field is missing in all of them or the table has no such column.
MostFrequent(df, t, field) ==
    LET c == Col(t[2], field)
        values == IF c \in Range(df.columns)
                  THEN ColumnOf(df, RowsOfTriple(df, t), c) ELSE <<>>
    IN  IF Mode(values) = {} THEN {None} ELSE Mode(values)

SummaryMatches(df, summary) ==
    /\ \A t \in Triples(df) :
          Cardinality({i \in 1..Len(summary) :
              /\ summary[i].Software = t[1]
              /\ summary[i].RigCameraIndex = t[2]
              /\ summary[i].BandName = t[3]}) = 1
    /\ \A i \in 1..Len(summary) :
          LET t == <<summary[i].Software, summary[i].RigCameraIndex, summary[i].BandName>>
          IN  /\ t \in Triples(df)
              /\ summary[i].Count = Len(RowsOfTriple(df, t))
              /\ summary[i].CentralWavelength \in MostFrequent(df, t, "CentralWavelength")
              /\ summary[i].WavelengthFWHM \in MostFrequent(df, t, "WavelengthFWHM")

(***************************************************************************)
(* C8: for every table with a Software column, compare_band_assignments    *)
(* returns, without raising, exactly one record for each (firmware, band   *)
(* index, band name) triple of a row, with the number of the rows of the   *)
(* triple and their most frequent wavelength and FWHM, also when the       *)
(* wavelength or the FWHM is missing in all those rows or has no column.   *)
(***************************************************************************)
C8_OneRecordPerTripleWithModes ==
    (SoftwareCol \in Range(cDf.columns) /\ cPc # "start") =>
        /\ cPc # "raised"
        /\ SummaryMatches(cDf, summary_df)

\* The text of an observed cell.
CellText(r) == r.BandName \o " (" \o r.CentralWavelength \o " nm)"

(***************************************************************************)
(* C9: create_band_table has one row for each firmware version and one     *)
(* column for each band index of the summary; the cell of an observed      *)
(* (firmware, band index) pair holds "{bandName} ({wavelength} nm)", and   *)
(* the cell of a pair that was not observed is missing.                    *)
(***************************************************************************)
C9_UnobservedCellsRemainEmpty ==
    (cPc = "table" /\ summary_df # <<>>) =>
        /\ Range(pivot_df.index) = {summary_df[i].Software : i \in 1..Len(summary_df)}
        /\ Range(pivot_df.columns) =
              {summary_df[i].RigCameraIndex : i \in 1..Len(summary_df)}
        /\ \A sw \in Range(pivot_df.index), idx \in Range(pivot_df.columns) :
              LET observed == {i \in 1..Len(summary_df) :
                                  /\ summary_df[i].Software = sw
                                  /\ summary_df[i].RigCameraIndex = idx}
              IN  IF observed = {}
                  THEN pivot_df.cell[<<sw, idx>>] = NaN
                  ELSE \E i \in observed :
                          pivot_df.cell[<<sw, idx>>] = CellText(summary_df[i])

(***************************************************************************)
(* The entry point: the block under if __name__ == "__main__".  It calls   *)
(* parse_directory_structure(BASE_DIR), whose steps are those of the scan. *)
(***************************************************************************)
\* Lines 42-48: the columns of the table the scan returns.
ScanColumns == {"plot_id", "visit_date", "full_path"}

\* Line 53: pd.DataFrame(data), the rows labelled 0..n-1.
DataFrame(records) ==
    [i \in 1..Len(records) |->
        [label |-> i - 1, plot_id |-> records[i].plot_id,
         visit_date |-> records[i].visit_date, full_path |-> records[i].full_path]]

\* df[column]: KeyError for a column the table does not have.
HasColumn(columns, column) == column \in columns

\* Series.nunique() of df['year']
YearsOf(df) == {df[i].visit_date.year : i \in 1..Len(df)}

MainIdle ==
    /\ mPc = "idle"
    /\ mOut = <<>>
    /\ df_sorted = <<>>
    /\ mExc = None

\* Line 88: the program starts and enters parse_directory_structure.
MainInit ==
    /\ ScanInit
    /\ mPc = "scan"
    /\ mOut = <<>>
    /\ df_sorted = <<>>
    /\ mExc = None

\* Line 88: a step of parse_directory_structure.
MainScan ==
    /\ mPc = "scan"
    /\ ScanNext

\* Lines 90-92: an empty table, the warning and nothing else.
MainEmpty ==
    /\ mPc = "scan"
    /\ scanPc = "done"
    /\ data = <<>>
    /\ mOut' = Append(mOut, "warning")
    /\ mPc' = "exit"
    /\ UNCHANGED <<df_sorted, mExc>>
    /\ UNCHANGED mainOthers

\* Lines 95-99: head(10), shape and dtypes.
MainPreview ==
    /\ mPc = "scan"
    /\ scanPc = "done"
    /\ data # <<>>
    /\ mOut' = Append(mOut, "preview")
    /\ mPc' = "preview"
    /\ UNCHANGED <<df_sorted, mExc>>
    /\ UNCHANGED mainOthers

\* Lines 108-111: df_sorted and the heading of the examples.
MainSort ==
    /\ mPc = "preview"
    /\ df_sorted' = LET sorted == SortRows(Unjoined(DataFrame(data)))
                    IN  [i \in 1..Len(sorted) |-> sorted[i].row]
    /\ mOut' = Append(mOut, "heading")
    /\ mPc' = "sorted"
    /\ UNCHANGED mExc
    /\ UNCHANGED mainOthers

\* Lines 114-117: the visits of the latest year, when df['year'] holds more
\* than one year.  The lines that add the year column (102) are commented
\* out, and the table has the columns of the scan.
MainYearExample ==
    /\ mPc = "sorted"
    /\ IF HasColumn(ScanColumns, "year")
       THEN /\ mOut' = IF Cardinality(YearsOf(DataFrame(data))) > 1
                       THEN Append(mOut, "example") ELSE mOut
            /\ mPc' = "exit"
            /\ UNCHANGED mExc
       ELSE /\ mPc' = "raised"
            /\ mExc' = "KeyError"
            /\ UNCHANGED mOut
    /\ UNCHANGED df_sorted
    /\ UNCHANGED mainOthers

MainNext == MainScan \/ MainEmpty \/ MainPreview \/ MainSort \/ MainYearExample

(***************************************************************************)
(* C11: the program scans the root; with an empty scan it prints the       *)
(* warning and no table; otherwise it prints the preview and then reaches  *)
(* and completes the example of the filter by year; in both cases it ends  *)
(* normally, without an exception.                                         *)
(***************************************************************************)
C11_MainEndsNormally ==
    /\ mPc # "raised"
    /\ mPc = "exit" =>
          IF data = <<>> THEN mOut = <<"warning">>
          ELSE Len(mOut) >= 2 /\ mOut[1] = "preview" /\ mOut[2] = "heading"

(***************************************************************************)
(* BandAnalyzer, end to end: compare_band_assignments applied to the table *)
(* that extract_multispec_analysis returned.                               *)
(***************************************************************************)
RECURSIVE Flatten(_)
\* The concatenation of a sequence of sequences.
Flatten(ss) == IF ss = <<>> THEN <<>> ELSE Head(ss) \o Flatten(Tail(ss))

\* Lines 536-544: the keys a record gets after plot_id, visit_date and
\* full_path, in the order of their insertion.
RecordColumns(bands, fields) ==
    IF bands.keys = <<>> THEN <<>>
    ELSE LET named == SelectSeq(fields, LAMBDA f : f # "RigCameraIndex")
         IN  <<SoftwareCol, Col(None, "SwVersion")>>
             \o Flatten([i \in 1..Len(bands.keys) |->
                    [j \in 1..Len(named) |-> Col(bands.keys[i], named[j])]])

\* The name of a column in the records of the analysis.
ColumnName(c) == IF c.band = None THEN c.field ELSE BandColumn(c.band, c.field)

\* Line 553: pd.DataFrame(data), its columns in the order the records first
\* name them, a cell of a record without the key missing.  plot_id,
\* visit_date and full_path, which the comparison never reads, are left out.
AnalysisTable(records, bandsSeq, fields) ==
    LET columns == Unique(Flatten([i \in 1..Len(bandsSeq) |->
                                      RecordColumns(bandsSeq[i], fields)]))
    IN  [columns |-> columns,
         rows |-> [i \in 1..Len(records) |->
                     [c \in Range(columns) |-> Get(records[i].cols, ColumnName(c))]]]

\* Lines 569-619: compare_band_assignments as one function of its table.
CompareBandAssignments(df) ==
    IF SoftwareCol \notin Range(df.columns) THEN [exc |-> None, data |-> <<>>]
    ELSE LET done == SummariseVersions(df, Versions(df), <<>>)
         IN  IF done.exc # None THEN [exc |-> done.exc, data |-> <<>>]
             ELSE [exc |-> None, data |-> SortSummary(done.data)]

NotCompared == [exc |-> None, data |-> <<>>]

ChainIdle ==
    /\ kPc = "idle"
    /\ kCompared = NotCompared

\* extract_multispec_analysis(plot_df, fields) is entered.
ChainInit ==
    /\ AnalysisInit
    /\ kPc = "analysis"
    /\ kCompared = NotCompared

\* A step of extract_multispec_analysis.
ChainAnalysis ==
    /\ kPc = "analysis"
    /\ AnalysisNext

\* compare_band_assignments(result_df)
ChainCompare ==
    /\ kPc = "analysis"
    /\ aPc = "done"
    /\ kCompared' = CompareBandAssignments(AnalysisTable(aResult, aBands, aFields))
    /\ kPc' = "compared"
    /\ UNCHANGED chainOthers

ChainNext == ChainAnalysis \/ ChainCompare

(***************************************************************************)
(* C13: the Software and the SwVersion of a record of the analysis are     *)
(* read from the band entry, which holds the file name and the requested   *)
(* fields only: they are not None only when they are among the requested   *)
(* fields; with the default fields they are None in every record, whatever *)
(* exiftool printed, and compare_band_assignments returns an empty result  *)
(* for the table.                                                          *)
(***************************************************************************)
C13_SoftwareOnlyWhenRequested ==
    /\ \A i \in 1..Len(aData) : \A t \in {"Software", "SwVersion"} :
          (t \in DOMAIN aData[i].cols /\ aData[i].cols[t] # None) =>
              /\ t \in Range(aFields)
              /\ aData[i].cols[t] = aBands[i].val[aBands[i].keys[1]][t]
    /\ aFields = DEFAULT_FIELDS =>
          /\ \A i \in 1..Len(aData) : \A t \in {"Software", "SwVersion"} :
                t \in DOMAIN aData[i].cols => aData[i].cols[t] = None
          /\ kPc = "compared" => kCompared = [exc |-> None, data |-> <<>>]

\* With the default fields, a visit whose exiftool printed a Software tag
\* and gave bands, and the comparison of the table done.
C13_Witness ==
    /\ kPc = "compared"
    /\ aFields = DEFAULT_FIELDS
    /\ \E i \in 1..Len(aData) :
          /\ aReported[i] = "v1"
          /\ aBands[i] # EmptyMap
          /\ aData[i].cols["Software"] = None
    /\ kCompared.data = <<>>

(***************************************************************************)
(* The specifications: one function at a time, the others idle.            *)
(***************************************************************************)
InitScan == ScanInit /\ OneIdle /\ FilterIdle /\ BandsIdle /\ EnrichIdle /\ AnalysisIdle /\ CompareIdle /\ MainIdle /\ ChainIdle
SpecScan == InitScan /\ [][ScanNext]_vars

InitOne == OneInit /\ ScanIdle /\ FilterIdle /\ BandsIdle /\ EnrichIdle /\ AnalysisIdle /\ CompareIdle /\ MainIdle /\ ChainIdle
SpecOne == InitOne /\ [][OneNext]_vars

InitFilter == FilterInit /\ ScanIdle /\ OneIdle /\ BandsIdle /\ EnrichIdle /\ AnalysisIdle /\ CompareIdle /\ MainIdle /\ ChainIdle
SpecFilter == InitFilter /\ [][FilterNext]_vars

InitBands == BandsInit /\ ScanIdle /\ OneIdle /\ FilterIdle /\ EnrichIdle /\ AnalysisIdle /\ CompareIdle /\ MainIdle /\ ChainIdle
SpecBands == InitBands /\ [][BandsNext]_vars

InitEnrich == EnrichInit /\ ScanIdle /\ OneIdle /\ FilterIdle /\ BandsIdle /\ AnalysisIdle /\ CompareIdle /\ MainIdle /\ ChainIdle
SpecEnrich == InitEnrich /\ [][EnrichNext]_vars

InitAnalysis == AnalysisInit /\ ScanIdle /\ OneIdle /\ FilterIdle /\ BandsIdle /\ EnrichIdle /\ CompareIdle /\ MainIdle /\ ChainIdle
SpecAnalysis == InitAnalysis /\ [][AnalysisNext]_vars

InitCompare == CompareInit /\ ScanIdle /\ OneIdle /\ FilterIdle /\ BandsIdle /\ EnrichIdle /\ AnalysisIdle /\ MainIdle /\ ChainIdle
SpecCompare == InitCompare /\ [][CompareNext]_vars

InitMain == MainInit /\ OneIdle /\ FilterIdle /\ BandsIdle /\ EnrichIdle /\ AnalysisIdle /\ CompareIdle /\ ChainIdle
SpecMain == InitMain /\ [][MainNext]_vars

InitChain == ChainInit /\ ScanIdle /\ OneIdle /\ FilterIdle /\ BandsIdle /\ EnrichIdle /\ CompareIdle /\ MainIdle
SpecChain == InitChain /\ [][ChainNext]_vars

====
